---- MODULE Spec2Model ----
(***************************************************************************)
(* GeoPackage output driver of mapchete (mapchete/formats/default/gpkg.py): *)
(* the OutputDataWriter (construction, validation, write fan-out) and the   *)
(* InputTile view with its per-flag read cache.                             *)
(***************************************************************************)
EXTENDS Integers, Sequences, FiniteSets, TLC

\* ------------------------------------------------------------------ bounds
\* longest feature batch handed to write / returned by the process
MaxFeatures == 2
\* cap on the number of get_raw_output calls made through the view
MaxCalls == 3

\* ------------------------------------------------------------ value domains
\* feature records, told apart by a number
Features == 1..MaxFeatures

\* the features lo..hi in ascending order, and a sequence reversed
Run(lo, hi) == [i \in 1..(hi - lo + 1) |-> lo + i - 1]

Reverse(s) == [i \in 1..Len(s) |-> s[Len(s) + 1 - i]]

\* feature batches: the empty batch and every run of neighbouring features, in
\* ascending and in descending order
Batches ==
    {<<>>} \cup {Run(lo, hi) : lo \in Features, hi \in Features}
           \cup {Reverse(Run(lo, hi)) : lo \in Features, hi \in Features}

\* raw outputs the process may hold for the tile (none, one or two records)
RawOutputs == {<<>>, <<1>>, <<2, 1>>}

Flags == BOOLEAN

\* process tiles handed to write; the output tiles they overlap are 1 and 2
\* (see intersecting)
ProcessTiles == {11, 12, 13}

\* pixelbuffer values an output configuration may carry
PixelBuffers == {0, 1}

\* failures the Feature Codec may raise
CodecFailures == {"DriverError", "OSError"}

\* geometry values tried in configurations ("Circle" is outside the enumeration)
ConfigGeometries == {"Polygon", "Circle"}

\* failures the upstream process may raise from get_raw_output
ProcessFailures == {"MapcheteProcessError", "MapcheteNodataTile"}

\* ------------------------------------------------------------------- state
VARIABLES
    _cache,       \* InputTile._cache: flag -> object returned by get_raw_output
    rawOutput,    \* what the process currently holds as raw output for the tile
    rawCalls,     \* number of get_raw_output calls made so far (object ids)
    callLog,      \* get_raw_output calls made since the last __exit__
    served,       \* flags for which read/is_empty returned since the last __exit__
    firstObj,     \* per served flag, the object its first read returned
    servedBy,     \* per served flag, the operation that first asked for it
    scope,        \* "constructed", "open" (after __enter__), "closed" (after __exit__)
    exitMark,     \* rawCalls at the last __exit__
    exitCached,   \* flags that were cached when the last __exit__ ran
    viewOp        \* the last operation on the view and what the caller saw

VARIABLES
    writer,       \* the OutputDataWriter under examination, once constructed
    files,        \* storage: path -> artifact written by the codec
    dirs,         \* storage: directories that exist
    writerOp      \* the last operation on the writer and what the caller saw

VARIABLES
    pc,           \* per caller sharing the view, its position inside _from_cache
    tflag,        \* per caller, the validity_check of its read
    tobj,         \* per caller, the object its get_raw_output call returned
    tret,         \* per caller, the object its read returned
    misses,       \* per flag, how many lookups found it absent from _cache
    overlapped    \* flags found absent while another lookup of them was under way

VARIABLES
    views,        \* the views OutputDataWriter.open has returned, in order
    viewsOp       \* the last operation on one of them, and the views before it

writerVars == <<writer, files, dirs, writerOp>>

openVars == <<views, viewsOp>>

raceVars == <<pc, tflag, tobj, tret, misses, overlapped>>

viewVars == <<_cache, rawOutput, rawCalls, callLog, served, firstObj, servedBy,
              scope, exitMark, exitCached, viewOp>>

vars == <<viewVars, writerVars, raceVars, openVars>>

\* --------------------------------------------------------- the Input View
NoObj == [content |-> <<>>, id |-> 0]

EmptyCache == [f \in {} |-> NoObj]

NoViewOp ==
    [op |-> "none", flag |-> TRUE, no_neighbors |-> FALSE, exc |-> "none",
     outcome |-> "none", obj |-> NoObj,
     empty |-> FALSE, ncalls |-> 0, first |-> FALSE, retry |-> FALSE,
     cacheBefore |-> EmptyCache]

\* flag -> operation name, for no flag
NoOps == [f \in {} |-> "none"]

\* process.get_raw_output(tile): a new object holding the current raw output,
\* or the failure the process raises
get_raw_output(raw, failure, nextId) ==
    IF failure # "none"
    THEN [raised |-> failure, obj |-> NoObj]
    ELSE [raised |-> "none", obj |-> [content |-> raw, id |-> nextId]]

\* InputTile._from_cache without the membership test: asks the process each time
from_cache_always(cache, validity_check, raw, failure, nextId) ==
    LET r == get_raw_output(raw, failure, nextId)
    IN IF r.raised # "none"
       THEN [cache |-> cache, raised |-> r.raised, obj |-> NoObj, ncalls |-> 1]
       ELSE [cache |-> [f \in DOMAIN cache \cup {validity_check} |->
                          IF f = validity_check THEN r.obj ELSE cache[f]],
             raised |-> "none", obj |-> r.obj, ncalls |-> 1]

\* InputTile._from_cache that hands validity_check on to the process, which then
\* leaves out the first record as invalid
from_cache_flag_passed(cache, validity_check, raw, failure, nextId) ==
    IF validity_check \in DOMAIN cache
    THEN [cache |-> cache, raised |-> "none", obj |-> cache[validity_check],
          ncalls |-> 0]
    ELSE LET r == get_raw_output(IF validity_check /\ raw # <<>> THEN Tail(raw)
                                 ELSE raw, failure, nextId)
         IN IF r.raised # "none"
            THEN [cache |-> cache, raised |-> r.raised, obj |-> NoObj, ncalls |-> 1]
            ELSE [cache |-> [f \in DOMAIN cache \cup {validity_check} |->
                               IF f = validity_check THEN r.obj ELSE cache[f]],
                  raised |-> "none", obj |-> r.obj, ncalls |-> 1]

\* InputTile._from_cache that remembers a failed call as an empty result
from_cache_poison(cache, validity_check, raw, failure, nextId) ==
    IF validity_check \in DOMAIN cache
    THEN [cache |-> cache, raised |-> "none", obj |-> cache[validity_check],
          ncalls |-> 0]
    ELSE LET r == get_raw_output(raw, failure, nextId)
             c == [f \in DOMAIN cache \cup {validity_check} |->
                     IF f = validity_check THEN r.obj ELSE cache[f]]
         IN [cache |-> c, raised |-> r.raised, obj |-> r.obj, ncalls |-> 1]

\* InputTile._from_cache(validity_check)
_from_cache(cache, validity_check, raw, failure, nextId) ==
    IF validity_check \in DOMAIN cache
    THEN [cache |-> cache, raised |-> "none", obj |-> cache[validity_check],
          ncalls |-> 0]
    ELSE LET r == get_raw_output(raw, failure, nextId)
         IN IF r.raised # "none"
            \* the right-hand side raised: nothing is assigned
            THEN [cache |-> cache, raised |-> r.raised, obj |-> NoObj, ncalls |-> 1]
            ELSE [cache |-> [f \in DOMAIN cache \cup {validity_check} |->
                               IF f = validity_check THEN r.obj ELSE cache[f]],
                  raised |-> "none", obj |-> r.obj, ncalls |-> 1]

\* InputTile.__exit__ that keeps the entries
exit_keep(cache) == cache

\* InputTile.__exit__ that drops the entry of the default flag only
exit_drop_default(cache) == [f \in DOMAIN cache \ {TRUE} |-> cache[f]]

\* InputTile.__exit__: self._cache = {}
exit_cache(cache) == EmptyCache

\* InputTile.is_empty that asks the process itself instead of going through
\* _from_cache
is_empty_uncached(cache, validity_check, raw, failure, nextId) ==
    LET r == get_raw_output(raw, failure, nextId)
    IN [lookup |-> [cache |-> cache, raised |-> r.raised, obj |-> r.obj,
                    ncalls |-> 1],
        ret |-> (r.raised = "none" /\ Len(r.obj.content) = 0)]

\* InputTile.is_empty(validity_check): len(self._from_cache(...)) == 0
is_empty(cache, validity_check, raw, failure, nextId) ==
    LET r == _from_cache(cache, validity_check, raw, failure, nextId)
    IN [lookup |-> r, ret |-> (r.raised = "none" /\ Len(r.obj.content) = 0)]

\* bookkeeping shared by read and is_empty once _from_cache has run; ret is what
\* is_empty returns
Lookup(opname, validity_check, r, ret) ==
    /\ _cache' = r.cache
    /\ rawCalls' = rawCalls + r.ncalls
    /\ callLog' = IF r.ncalls = 0 THEN callLog
                  ELSE Append(callLog, [flag |-> validity_check, raised |-> r.raised,
                                        id |-> rawCalls + 1,
                                        raw |-> IF r.raised = "none" THEN rawOutput
                                                ELSE <<>>])
    /\ served' = IF r.raised = "none" THEN served \cup {validity_check} ELSE served
    /\ firstObj' = IF r.raised = "none" /\ validity_check \notin served
                   THEN [f \in DOMAIN firstObj \cup {validity_check} |->
                           IF f = validity_check THEN r.obj ELSE firstObj[f]]
                   ELSE firstObj
    /\ servedBy' = IF r.raised = "none" /\ validity_check \notin served
                   THEN [f \in DOMAIN servedBy \cup {validity_check} |->
                           IF f = validity_check THEN opname ELSE servedBy[f]]
                   ELSE servedBy
    /\ viewOp' = [op |-> opname, flag |-> validity_check,
                  no_neighbors |-> FALSE, exc |-> "none",
                  outcome |-> IF r.raised = "none" THEN "ok" ELSE r.raised,
                  obj |-> r.obj,
                  empty |-> ret,
                  ncalls |-> r.ncalls,
                  first |-> (validity_check \notin served),
                  retry |-> (viewOp.op \in {"read", "is_empty"}
                             /\ viewOp.outcome \in ProcessFailures
                             /\ viewOp.flag = validity_check),
                  cacheBefore |-> _cache]
    /\ UNCHANGED <<rawOutput, scope, exitMark, exitCached>>

\* InputTile.read(validity_check, no_neighbors)
Read(validity_check, no_neighbors) ==
    IF no_neighbors
    THEN /\ viewOp' = [NoViewOp EXCEPT !.op = "read", !.flag = validity_check,
                         !.no_neighbors = TRUE,
                         !.outcome = "NotImplementedError",
                         !.first = (validity_check \notin served),
                         !.cacheBefore = _cache]
         /\ UNCHANGED <<_cache, rawOutput, rawCalls, callLog, served, firstObj,
                        servedBy, scope, exitMark, exitCached>>
    ELSE \E failure \in ProcessFailures \cup {"none"} :
            /\ validity_check \in DOMAIN _cache \/ rawCalls < MaxCalls
            /\ \E r \in {_from_cache(_cache, validity_check, rawOutput, failure,
                                    rawCalls + 1)} :
                  Lookup("read", validity_check, r, FALSE)

\* InputTile.is_empty(validity_check)
IsEmpty(validity_check) ==
    \E failure \in ProcessFailures \cup {"none"} :
        /\ validity_check \in DOMAIN _cache \/ rawCalls < MaxCalls
        /\ \E e \in {is_empty(_cache, validity_check, rawOutput, failure,
                             rawCalls + 1)} :
              Lookup("is_empty", validity_check, e.lookup, e.ret)

\* InputTile.__enter__
Enter ==
    /\ scope' = "open"
    /\ viewOp' = [NoViewOp EXCEPT !.op = "enter", !.outcome = "ok",
                    !.cacheBefore = _cache]
    /\ UNCHANGED <<_cache, rawOutput, rawCalls, callLog, served, firstObj,
                   servedBy, exitMark, exitCached>>

\* InputTile.__exit__ that returns a true value: the error is swallowed
exit_suppresses_all(exc) == TRUE

\* InputTile.__exit__ returns None: an error that ends the block is not suppressed
exit_suppresses(exc) == FALSE

\* the errors that may end a scoped block: the error the last call on the view
\* raised, or an error of the block's own code
BlockErrors ==
    {"BlockError"} \cup (IF viewOp.op \in {"read", "is_empty"}
                            /\ viewOp.outcome # "ok"
                         THEN {viewOp.outcome} ELSE {})

\* InputTile.__exit__(t, v, tb); exc is the error that ended the block, "none"
\* when it ended normally, and the caller sees exc unless __exit__ suppresses it
Exit(exc) ==
    /\ _cache' = exit_cache(_cache)
    /\ scope' = "closed"
    /\ callLog' = <<>>
    /\ served' = {}
    /\ firstObj' = EmptyCache
    /\ servedBy' = NoOps
    /\ exitMark' = rawCalls
    /\ exitCached' = DOMAIN _cache
    /\ viewOp' = [NoViewOp EXCEPT
                    !.op = "exit", !.exc = exc,
                    !.outcome = IF exc = "none" \/ exit_suppresses(exc) THEN "ok"
                                ELSE exc,
                    !.cacheBefore = _cache]
    /\ UNCHANGED <<rawOutput, rawCalls>>

\* the upstream process recomputes: its raw output for the tile changes
ProcessChanges ==
    /\ \E b \in RawOutputs : b # rawOutput /\ rawOutput' = b
    /\ UNCHANGED <<_cache, rawCalls, callLog, served, firstObj, servedBy, scope,
                   exitMark, exitCached, viewOp>>

\* ----------------------------------------- one view shared by two callers
\* The view takes no lock: two callers that read through one InputTile run the
\* steps of _from_cache (membership test, call, store, load) interleaved.
Callers == {1, 2}

\* the failure a call of get_raw_output made by one of the two callers may raise
CallFailures == {"MapcheteProcessError"}

\* _from_cache: validity_check not in self._cache
cache_miss(cache, validity_check) == validity_check \notin DOMAIN cache

\* _from_cache that stores under the default flag whatever flag was asked for
cache_store_default(cache, validity_check, obj) ==
    [f \in DOMAIN cache \cup {TRUE} |-> IF f = TRUE THEN obj ELSE cache[f]]

\* _from_cache: self._cache[validity_check] = <object>
cache_store(cache, validity_check, obj) ==
    [f \in DOMAIN cache \cup {validity_check} |->
        IF f = validity_check THEN obj ELSE cache[f]]

\* _from_cache: return self._cache[validity_check] (NoObj stands for KeyError)
cache_load(cache, validity_check) ==
    IF validity_check \in DOMAIN cache THEN cache[validity_check] ELSE NoObj

\* a caller enters read(validity_check) and so _from_cache
Begin(t, validity_check) ==
    /\ pc[t] \in {"idle", "done", "failed"}
    /\ pc' = [pc EXCEPT ![t] = "check"]
    /\ tflag' = [tflag EXCEPT ![t] = validity_check]
    /\ tobj' = [tobj EXCEPT ![t] = NoObj]
    /\ tret' = [tret EXCEPT ![t] = NoObj]
    /\ UNCHANGED <<_cache, rawOutput, rawCalls, callLog, misses, overlapped>>

\* the membership test of _from_cache
Check(t) ==
    /\ pc[t] = "check"
    /\ IF cache_miss(_cache, tflag[t])
       THEN /\ pc' = [pc EXCEPT ![t] = "call"]
            /\ misses' = [misses EXCEPT ![tflag[t]] = @ + 1]
            /\ overlapped' =
                  IF \E u \in Callers \ {t} :
                        pc[u] \in {"call", "store"} /\ tflag[u] = tflag[t]
                  THEN overlapped \cup {tflag[t]} ELSE overlapped
       ELSE /\ pc' = [pc EXCEPT ![t] = "load"]
            /\ UNCHANGED <<misses, overlapped>>
    /\ UNCHANGED <<_cache, rawOutput, rawCalls, callLog, tflag, tobj, tret>>

\* the call of get_raw_output inside _from_cache
Call(t) ==
    /\ pc[t] = "call"
    /\ rawCalls < MaxCalls
    /\ \E failure \in {"none"} \cup CallFailures :
         \E r \in {get_raw_output(rawOutput, failure, rawCalls + 1)} :
            /\ rawCalls' = rawCalls + 1
            /\ callLog' = Append(callLog, [flag |-> tflag[t], raised |-> r.raised,
                                           id |-> rawCalls + 1,
                                           raw |-> IF r.raised = "none"
                                                   THEN rawOutput ELSE <<>>])
            /\ IF r.raised = "none"
               THEN /\ tobj' = [tobj EXCEPT ![t] = r.obj]
                    /\ pc' = [pc EXCEPT ![t] = "store"]
               ELSE /\ pc' = [pc EXCEPT ![t] = "failed"]
                    /\ UNCHANGED tobj
    /\ UNCHANGED <<_cache, rawOutput, tflag, tret, misses, overlapped>>

\* the assignment to self._cache[validity_check] inside _from_cache
Store(t) ==
    /\ pc[t] = "store"
    /\ _cache' = cache_store(_cache, tflag[t], tobj[t])
    /\ pc' = [pc EXCEPT ![t] = "load"]
    /\ UNCHANGED <<rawOutput, rawCalls, callLog, tflag, tobj, tret, misses,
                   overlapped>>

\* the return of _from_cache and of read
Return(t) ==
    /\ pc[t] = "load"
    /\ tret' = [tret EXCEPT ![t] = cache_load(_cache, tflag[t])]
    /\ pc' = [pc EXCEPT ![t] = "done"]
    /\ UNCHANGED <<_cache, rawOutput, rawCalls, callLog, tflag, tobj, misses,
                   overlapped>>

\* ------------------------------------------------ views returned by open
\* the tiles and processes open is called with
OpenTiles == {1, 2}

Processes == {"p", "q"}

\* how many views are followed (as many as there are callers above)
ViewSlots == Callers

NoViewsOp ==
    [op |-> "none", view |-> 0, tile |-> 0, process |-> "", outcome |-> "none",
     call |-> <<>>, before |-> <<>>]

\* InputTile(tile, process): self.tile, self.process, self._cache = {}
InputTile(tile, process) ==
    [tile |-> tile, process |-> process, _cache |-> EmptyCache]

\* OutputDataWriter.open(tile, process): return InputTile(tile, process)
open(tile, process) == InputTile(tile, process)

\* a cache kept per tile and process, not per view: a store through one view
\* shows in every view bound to the same tile and process
views_store_shared(vs, v, cache) ==
    [i \in 1..Len(vs) |->
        IF vs[i].tile = vs[v].tile /\ vs[i].process = vs[v].process
        THEN [vs[i] EXCEPT !._cache = cache] ELSE vs[i]]

\* self._cache = ... inside a method of view v: the attribute of that instance
views_store(vs, v, cache) == [vs EXCEPT ![v]._cache = cache]

\* OutputDataWriter.open(tile, process)
Open(tile, process) ==
    /\ Len(views) < Cardinality(ViewSlots)
    /\ views' = Append(views, open(tile, process))
    /\ viewsOp' = [NoViewsOp EXCEPT !.op = "open", !.view = Len(views) + 1,
                     !.tile = tile, !.process = process, !.outcome = "ok",
                     !.before = views]
    /\ UNCHANGED <<rawOutput, rawCalls>>

\* InputTile.read(validity_check) on view v
ReadView(v, validity_check) ==
    /\ v \in 1..Len(views)
    /\ validity_check \in DOMAIN views[v]._cache \/ rawCalls < MaxCalls
    /\ \E failure \in {"none"} \cup CallFailures :
         \E r \in {_from_cache(views[v]._cache, validity_check, rawOutput, failure,
                                rawCalls + 1)} :
            /\ views' = views_store(views, v, r.cache)
            /\ rawCalls' = rawCalls + r.ncalls
            /\ viewsOp' = [NoViewsOp EXCEPT
                             !.op = "read", !.view = v,
                             !.outcome = IF r.raised = "none" THEN "ok"
                                         ELSE r.raised,
                             !.call = IF r.ncalls = 0 THEN <<>>
                                      ELSE <<views[v].process, views[v].tile>>,
                             !.before = views]
    /\ UNCHANGED rawOutput

\* InputTile.__exit__ on view v
ExitView(v) ==
    /\ v \in 1..Len(views)
    /\ views' = views_store(views, v, exit_cache(views[v]._cache))
    /\ viewsOp' = [NoViewsOp EXCEPT !.op = "exit", !.view = v, !.outcome = "ok",
                     !.before = views]
    /\ UNCHANGED <<rawOutput, rawCalls>>

\* ------------------------------------------------------ the Output Writer
\* An output configuration (a Python dict) is kept as what validation and the
\* writer look at: per key, the Python type found there ("missing" when the key
\* is absent), and the values of geometry, path and pixelbuffer.
Configs ==
    {c \in [schema : {"missing", "dict", "str"},
            properties : {"missing", "dict", "list"},
            geometry : {"missing", "str", "int"},
            geometry_value : ConfigGeometries \cup {""},
            path : {"missing", "str", "int"},
            path_value : {"out", ""},
            pixelbuffer : PixelBuffers] :
        /\ c.schema # "dict" => c.properties = "missing" /\ c.geometry = "missing"
        /\ (c.geometry = "str") = (c.geometry_value # "")
        /\ (c.path = "str") = (c.path_value # "")}

NoConfig ==
    [schema |-> "missing", properties |-> "missing", geometry |-> "missing",
     geometry_value |-> "", path |-> "missing", path_value |-> "", pixelbuffer |-> 0]

NoWriter == [constructed |-> FALSE, output_params |-> NoConfig, pixelbuffer |-> 0]

\* the geometry enumeration of is_valid_with_config
GeometryTypes ==
    {"Geometry", "Point", "MultiPoint", "Line", "MultiLine", "Polygon", "MultiPolygon"}

\* validate_values(config, [(key, type), ...]): every key present with its type.
\* gpkg.py uses validate_values, write_vector_window and bucket_resource without
\* importing or defining them; they stand for the package's helpers of that name.
validate_values(found, expected) ==
    \A k \in DOMAIN expected : found[k] = expected[k]

\* the configurations validation is tried on: every shape of Configs, with each
\* geometry of the enumeration and two outside it
ValidationConfigs ==
    {c \in [schema : {"missing", "dict", "str"},
            properties : {"missing", "dict", "list"},
            geometry : {"missing", "str", "int"},
            geometry_value : GeometryTypes \cup {"Circle", "LineString", ""},
            path : {"missing", "str", "int"},
            path_value : {"out", ""},
            pixelbuffer : {0}] :
        /\ c.schema # "dict" => c.properties = "missing" /\ c.geometry = "missing"
        /\ (c.geometry = "str") = (c.geometry_value # "")
        /\ (c.path = "str") = (c.path_value # "")}

\* is_valid_with_config that tests the geometry enumeration before the keys
is_valid_enum_first(config) ==
    IF config.geometry_value \notin GeometryTypes
    THEN "TypeError"
    ELSE IF ~validate_values([schema |-> config.schema, path |-> config.path],
                             [schema |-> "dict", path |-> "str"])
    THEN "ValidationError"
    ELSE IF ~validate_values([properties |-> config.properties,
                              geometry |-> config.geometry],
                             [properties |-> "dict", geometry |-> "str"])
    THEN "ValidationError"
    ELSE "True"

\* is_valid_with_config without the geometry enumeration test
is_valid_any_geometry(config) ==
    IF ~validate_values([schema |-> config.schema, path |-> config.path],
                        [schema |-> "dict", path |-> "str"])
    THEN "ValidationError"
    ELSE IF ~validate_values([properties |-> config.properties,
                              geometry |-> config.geometry],
                             [properties |-> "dict", geometry |-> "str"])
    THEN "ValidationError"
    ELSE "True"

\* OutputDataWriter.is_valid_with_config(config): "True", or the error raised
is_valid_with_config(config) ==
    IF ~validate_values([schema |-> config.schema, path |-> config.path],
                        [schema |-> "dict", path |-> "str"])
    THEN "ValidationError"
    ELSE IF ~validate_values([properties |-> config.properties,
                              geometry |-> config.geometry],
                             [properties |-> "dict", geometry |-> "str"])
    THEN "ValidationError"
    ELSE IF config.geometry_value \notin GeometryTypes
    THEN "TypeError"
    ELSE "True"

\* the configurations of Configs that validation accepts
AcceptedConfigs == {c \in Configs : is_valid_with_config(c) = "True"}

\* base-class construction: the configuration is validated before it is accepted
\* and the writer's attributes are set from it
base_init(output_params) ==
    LET valid == is_valid_with_config(output_params)
    IN IF valid # "True"
       THEN [raised |-> valid, writer |-> NoWriter]
       ELSE [raised |-> "none",
             writer |-> [constructed |-> TRUE, output_params |-> output_params,
                         pixelbuffer |-> output_params.pixelbuffer]]

\* pyramid.intersecting(process_tile): the output tiles the process tile overlaps,
\* in iteration order
intersecting(process_tile) ==
    CASE process_tile = 11 -> <<1, 2>>
      [] process_tile = 12 -> <<2>>
      [] process_tile = 14 -> <<1, 2, 3>>
      [] OTHER -> <<>>

FileExtension == ".gpkg"

\* get_path(tile): a pure function of the tile and the output parameters
get_path(w, tile) ==
    [base |-> w.output_params.path_value, tile |-> tile, ext |-> FileExtension]

\* the directory a path lies in: tiles of one row share it
dirname(path) == [base |-> path.base, row |-> (path.tile + 1) \div 2]

\* prepare_path(tile): make sure the directory of the tile's path exists
prepare_path(ds, w, tile) == ds \cup {dirname(get_path(w, tile))}

\* BufferedTile(tile, pixelbuffer)
BufferedTile(tile, pixelbuffer) == [tile |-> tile, pixelbuffer |-> pixelbuffer]

\* what the codec leaves at a path
Encode(in_data, out_schema, out_tile) ==
    [features |-> in_data, schema |-> out_schema, tile |-> out_tile]

\* write_vector_window(in_data, out_schema, out_tile, out_path): the Feature
\* Codec; codec gives, per tile, the failure it raises there ("none": it writes)
\* and a successful call replaces the file at out_path
write_vector_window(fs, in_data, out_schema, out_tile, out_path, codec) ==
    IF codec[out_tile.tile] # "none"
    THEN [raised |-> codec[out_tile.tile], files |-> fs]
    ELSE [raised |-> "none",
          files |-> [q \in DOMAIN fs \cup {out_path} |->
                       IF q = out_path THEN Encode(in_data, out_schema, out_tile)
                       ELSE fs[q]]]

\* output_params["schema"]
SchemaOf(w) ==
    [properties |-> w.output_params.properties,
     geometry |-> w.output_params.geometry_value]

\* len(data): lists, tuples and dicts have one; generators and iterators do not
HasLen(data) == data.kind \in {"list", "tuple", "dict"}

\* list(data): the items in order
list(data) == data.items

NoWrite ==
    [outcome |-> "ok", files |-> <<>>, dirs |-> {}, events |-> <<>>,
     codecCalls |-> <<>>, consumed |-> 0]

CodecCall(tile, data, w, out_tile, out_path, raised) ==
    [tile |-> tile, in_data |-> data, out_schema |-> SchemaOf(w),
     out_tile |-> out_tile, out_path |-> out_path, raised |-> raised]

\* variants of the fan-out loop: "first_only" returns after the first tile,
\* "skip_existing" leaves out tiles whose file exists, "swallow" catches the
\* codec's error and goes on, "one_path" takes the path once, for the first
\* tile, "rollback" removes on a failure what the earlier tiles wrote
RECURSIVE FanOutVariant(_, _, _, _, _, _)
FanOutVariant(tiles, data, st, w, codec, variant) ==
    IF tiles = <<>> THEN st
    ELSE LET tile == Head(tiles)
             out_path == IF variant = "one_path" /\ st.codecCalls # <<>>
                         THEN st.codecCalls[1].out_path
                         ELSE get_path(w, tile)
         IN IF variant = "skip_existing" /\ out_path \in DOMAIN st.files
            THEN FanOutVariant(Tail(tiles), data, st, w, codec, variant)
            ELSE
              LET ds == prepare_path(st.dirs, w, tile)
                  out_tile == BufferedTile(tile, w.pixelbuffer)
                  r == write_vector_window(st.files, data, SchemaOf(w), out_tile,
                                           out_path, codec)
                  st1 == [st EXCEPT
                            !.files = r.files,
                            !.dirs = ds,
                            !.events = st.events \o <<<<"get_path", tile>>,
                                                      <<"prepare_path", tile>>,
                                                      <<"BufferedTile", tile>>,
                                                      <<"write_vector_window", tile>>>>,
                            !.codecCalls = Append(st.codecCalls,
                                                  CodecCall(tile, data, w, out_tile,
                                                            out_path, r.raised))]
              IN IF r.raised # "none" /\ variant # "swallow"
                 THEN IF variant = "rollback"
                      THEN [st1 EXCEPT
                              !.outcome = r.raised,
                              !.files = [q \in DOMAIN st.files \
                                            {st.codecCalls[i].out_path :
                                               i \in 1..Len(st.codecCalls)} |->
                                           st.files[q]]]
                      ELSE [st1 EXCEPT !.outcome = r.raised]
                 ELSE IF variant = "first_only" THEN st1
                 ELSE FanOutVariant(Tail(tiles), data, st1, w, codec, variant)

FanOutFirstOnly(tiles, data, st, w, codec) ==
    FanOutVariant(tiles, data, st, w, codec, "first_only")

FanOutSkipExisting(tiles, data, st, w, codec) ==
    FanOutVariant(tiles, data, st, w, codec, "skip_existing")

FanOutSwallow(tiles, data, st, w, codec) ==
    FanOutVariant(tiles, data, st, w, codec, "swallow")

FanOutOnePath(tiles, data, st, w, codec) ==
    FanOutVariant(tiles, data, st, w, codec, "one_path")

FanOutRollback(tiles, data, st, w, codec) ==
    FanOutVariant(tiles, data, st, w, codec, "rollback")

\* the loop of OutputDataWriter.write over the intersecting tiles (lines 88-98)
RECURSIVE FanOut(_, _, _, _, _)
FanOut(tiles, data, st, w, codec) ==
    IF tiles = <<>> THEN st
    ELSE LET tile == Head(tiles)
             out_path == get_path(w, tile)
             ds == prepare_path(st.dirs, w, tile)
             out_tile == BufferedTile(tile, w.pixelbuffer)
             r == write_vector_window(st.files, data, SchemaOf(w), out_tile,
                                      out_path, codec)
             st1 == [st EXCEPT
                       !.files = r.files,
                       !.dirs = ds,
                       !.events = st.events \o <<<<"get_path", tile>>,
                                                 <<"prepare_path", tile>>,
                                                 <<"BufferedTile", tile>>,
                                                 <<"write_vector_window", tile>>>>,
                       !.codecCalls = Append(st.codecCalls,
                                             CodecCall(tile, data, w, out_tile,
                                                       out_path, r.raised))]
         IN IF r.raised # "none"
            THEN [st1 EXCEPT !.outcome = r.raised]
            ELSE FanOut(Tail(tiles), data, st1, w, codec)

\* variants of write's guards: "no_none_test" asks len(data) of None as well,
\* "no_type_test" lets every sized shape through to the fan-out
WriteVariant(w, fs, ds, process_tile, data, codec, variant) ==
    LET st == [NoWrite EXCEPT !.files = fs, !.dirs = ds]
    IN IF data.kind = "None" /\ variant # "no_none_test" THEN st
       ELSE IF ~HasLen(data) THEN [st EXCEPT !.outcome = "TypeError"]
       ELSE IF Len(data.items) = 0 THEN st
       ELSE IF data.kind \notin {"list", "generator"} /\ variant # "no_type_test"
       THEN [st EXCEPT !.outcome = "TypeError"]
       ELSE LET materialized == list(data)
                st1 == [st EXCEPT !.consumed = 1]
            IN IF Len(materialized) = 0 THEN st1
               ELSE FanOut(intersecting(process_tile), materialized,
                           [st1 EXCEPT !.events = <<<<"intersecting", process_tile>>>>],
                           w, codec)

write_no_none_test(w, fs, ds, process_tile, data, codec) ==
    WriteVariant(w, fs, ds, process_tile, data, codec, "no_none_test")

write_no_type_test(w, fs, ds, process_tile, data, codec) ==
    WriteVariant(w, fs, ds, process_tile, data, codec, "no_type_test")

\* OutputDataWriter.write(process_tile, data): the None test, len(data) (which
\* raises TypeError for a shape without a length), the type test, list(data) and
\* the fan-out; consumed counts the passes made over data
write(w, fs, ds, process_tile, data, codec) ==
    LET st == [NoWrite EXCEPT !.files = fs, !.dirs = ds]
    IN IF data.kind = "None" THEN st
       ELSE IF ~HasLen(data) THEN [st EXCEPT !.outcome = "TypeError"]
       ELSE IF Len(data.items) = 0 THEN st
       ELSE IF data.kind \notin {"list", "generator"}
       THEN [st EXCEPT !.outcome = "TypeError"]
       ELSE LET materialized == list(data)
                st1 == [st EXCEPT !.consumed = 1]
            IN IF Len(materialized) = 0 THEN st1
               ELSE FanOut(intersecting(process_tile), materialized,
                           [st1 EXCEPT !.events = <<<<"intersecting", process_tile>>>>],
                           w, codec)

NoneData == [kind |-> "None", items |-> <<>>]

\* what callers hand to write: None, a list, a generator, or another shape
DataInputs ==
    {NoneData}
      \cup [kind : {"list"}, items : Batches]
      \cup [kind : {"generator", "tuple", "dict", "iterator"},
            items : {<<>>, <<1>>}]

NoWriterOp ==
    [op |-> "none", outcome |-> "none", config |-> NoConfig, process_tile |-> 0,
     output_tile |-> 0, data |-> NoneData, events |-> <<>>, codecCalls |-> <<>>, consumed |-> 0,
     files_same |-> TRUE, dirs_same |-> TRUE, repeat |-> FALSE, prevCalls |-> <<>>]

\* OutputDataWriter.__init__(output_params), for the one writer followed here
Construct(output_params) ==
    /\ ~writer.constructed
    /\ \E r \in {base_init(output_params)} :
          /\ writer' = r.writer
          /\ writerOp' = [NoWriterOp EXCEPT
                            !.op = "construct",
                            !.outcome = IF r.raised = "none" THEN "ok" ELSE r.raised,
                            !.config = output_params]
    /\ UNCHANGED <<files, dirs>>

\* the output tiles a read of the writer is tried with
OutputTiles == {1, 2, 3}

\* OutputDataWriter.read that answers with no data
read_nothing(output_tile) == "ok"

\* OutputDataWriter.read(output_tile): raise NotImplementedError
read(output_tile) == "NotImplementedError"

\* OutputDataWriter.read(output_tile) called on the writer
ReadOutput(output_tile) ==
    /\ writer.constructed
    /\ \E r \in {read(output_tile)} :
          writerOp' = [NoWriterOp EXCEPT
                         !.op = "read",
                         !.outcome = r,
                         !.config = writer.output_params,
                         !.output_tile = output_tile]
    /\ UNCHANGED <<writer, files, dirs>>

\* OutputDataWriter.is_valid_with_config(config) called on the writer
Validate(config) ==
    /\ writer.constructed
    /\ \E r \in {is_valid_with_config(config)} :
          writerOp' = [NoWriterOp EXCEPT
                         !.op = "is_valid_with_config",
                         !.outcome = r,
                         !.config = config]
    /\ UNCHANGED <<writer, files, dirs>>

\* process tiles whose fan-out has a tile before and a tile after each failure
FanOutTiles == {11, 14}

\* the tiles of a sequence of tiles
TilesOf(tiles) == {tiles[i] : i \in 1..Len(tiles)}

\* how the codec may behave on the tiles of a fan-out: per tile, the failure it
\* raises there or "none"; with no record to write the codec is not reached and
\* one behaviour stands for all
CodecBehaviours(process_tile, data) ==
    [TilesOf(intersecting(process_tile)) ->
        IF data.items = <<>> THEN {"none"} ELSE CodecFailures \cup {"none"}]

\* OutputDataWriter.write(process_tile, data), for each way the codec may behave
Write(process_tile, data) ==
    /\ writer.constructed
    /\ \E codec \in CodecBehaviours(process_tile, data) :
        \E r \in {write(writer, files, dirs, process_tile, data, codec)} :
          LET again == /\ writerOp.op = "write"
                       /\ writerOp.outcome = "ok"
                       /\ writerOp.process_tile = process_tile
                       /\ writerOp.data = data
          IN /\ files' = r.files
             /\ dirs' = r.dirs
             /\ writerOp' = [NoWriterOp EXCEPT
                               !.op = "write",
                               !.outcome = r.outcome,
                               !.config = writer.output_params,
                               !.process_tile = process_tile,
                               !.data = data,
                               !.events = r.events,
                               !.codecCalls = r.codecCalls,
                               !.consumed = r.consumed,
                               !.files_same = (r.files = files),
                               !.dirs_same = (r.dirs = dirs),
                               !.repeat = again,
                               !.prevCalls = IF again THEN writerOp.codecCalls
                                             ELSE <<>>]
    /\ UNCHANGED writer

\* ------------------------------------------------------------ specification
Init ==
    /\ _cache = EmptyCache
    /\ rawOutput \in RawOutputs
    /\ rawCalls = 0
    /\ callLog = <<>>
    /\ served = {}
    /\ firstObj = EmptyCache
    /\ servedBy = NoOps
    /\ scope = "constructed"
    /\ exitMark = 0
    /\ exitCached = {}
    /\ viewOp = NoViewOp
    /\ writer = NoWriter
    /\ files = <<>>
    /\ dirs = {}
    /\ writerOp = NoWriterOp
    /\ pc = [t \in Callers |-> "idle"]
    /\ tflag = [t \in Callers |-> TRUE]
    /\ tobj = [t \in Callers |-> NoObj]
    /\ tret = [t \in Callers |-> NoObj]
    /\ misses = [f \in Flags |-> 0]
    /\ overlapped = {}
    /\ views = <<>>
    /\ viewsOp = NoViewsOp

NextView ==
    /\ \/ \E f \in Flags, nn \in BOOLEAN : Read(f, nn)
       \/ \E f \in Flags : IsEmpty(f)
       \/ Enter
       \/ \E exc \in {"none"} \cup BlockErrors : Exit(exc)
       \/ ProcessChanges
    /\ UNCHANGED <<writerVars, raceVars, openVars>>

NextWriter ==
    /\ \/ ~writer.constructed /\ \E c \in Configs : Construct(c)
       \/ \E p \in ProcessTiles, d \in DataInputs : Write(p, d)
    /\ UNCHANGED <<viewVars, raceVars, openVars>>

\* validation next to construction and to writes of one record
NextValidate ==
    /\ \/ ~writer.constructed /\ \E c \in Configs : Construct(c)
       \/ \E p \in ProcessTiles : Write(p, [kind |-> "list", items |-> <<1>>])
       \/ writer.constructed /\ \E c \in ValidationConfigs : Validate(c)
    /\ UNCHANGED <<viewVars, raceVars, openVars>>

\* the unsupported reads of both sides: reads of the view with either value of
\* no_neighbors, and reads of a writer that has written
NextUnsupported ==
    \/ /\ \E f \in Flags, nn \in BOOLEAN : Read(f, nn)
       /\ UNCHANGED <<writerVars, raceVars, openVars>>
    \/ /\ \/ ~writer.constructed /\ \E c \in AcceptedConfigs : Construct(c)
          \/ Write(12, [kind |-> "list", items |-> <<1>>])
          \/ \E t \in OutputTiles : ReadOutput(t)
       /\ UNCHANGED <<viewVars, raceVars, openVars>>

\* open and the views it returns
NextOpen ==
    /\ \/ \E t \in OpenTiles, p \in Processes : Open(t, p)
       \/ \E v \in ViewSlots, f \in Flags : ReadView(v, f)
       \/ \E v \in ViewSlots : ExitView(v)
    /\ UNCHANGED <<writerVars, raceVars, _cache, callLog, served, firstObj,
                   servedBy, scope, exitMark, exitCached, viewOp>>

\* writes of non-empty lists over two and three output tiles
NextFanOut ==
    /\ \/ ~writer.constructed /\ \E c \in AcceptedConfigs : Construct(c)
       \/ \E p \in FanOutTiles, b \in {<<1>>, <<2, 1>>} :
             Write(p, [kind |-> "list", items |-> b])
    /\ UNCHANGED <<viewVars, raceVars, openVars>>

NextRace ==
    /\ \/ \E t \in Callers, f \in Flags : Begin(t, f)
       \/ \E t \in Callers : Check(t)
       \/ \E t \in Callers : Call(t)
       \/ \E t \in Callers : Store(t)
       \/ \E t \in Callers : Return(t)
       \/ ProcessChanges /\ UNCHANGED raceVars
    /\ UNCHANGED <<writerVars, openVars, served, firstObj, servedBy, scope,
                   exitMark, exitCached, viewOp>>

Next ==
    \/ NextView \/ NextWriter \/ NextValidate \/ NextUnsupported \/ NextOpen
    \/ NextFanOut \/ NextRace

Spec == Init /\ [][Next]_vars

\* the Input View alone
SpecView == Init /\ [][NextView]_vars

\* the Output Writer alone
InitWriter == Init /\ rawOutput = <<>>

SpecWriter == InitWriter /\ [][NextWriter]_vars

\* validation by a constructed writer
SpecValidate == InitWriter /\ [][NextValidate]_vars

\* the operations that are not supported
SpecUnsupported == Init /\ [][NextUnsupported]_vars

\* the fan-out of write over up to three output tiles
SpecFanOut == InitWriter /\ [][NextFanOut]_vars

\* several views returned by open
SpecOpen == Init /\ [][NextOpen]_vars

\* one Input View, inside one scope, read by two callers at once
SpecRace == Init /\ [][NextRace]_vars

\* ------------------------------------------------------------------ claims
\* get_raw_output calls since the last __exit__ that returned, made for flag f
OkCalls(f) ==
    Cardinality({i \in 1..Len(callLog) :
                    callLog[i].flag = f /\ callLog[i].raised = "none"})

ViewServed == viewOp.op \in {"read", "is_empty"} /\ viewOp.outcome = "ok"

\* C1: between two scope exits the process is called once per flag used: the
\* calls that returned number the flags served so far, a served flag is answered
\* with the object its first read stored without another call, and the first
\* read with a flag makes that flag's own call.
C1_OneCallPerFlag ==
    /\ \A f \in Flags : OkCalls(f) = IF f \in served THEN 1 ELSE 0
    /\ (\A i \in 1..Len(callLog) : callLog[i].raised = "none")
          => Len(callLog) = Cardinality(served)
    /\ ViewServed =>
          /\ viewOp.ncalls = IF viewOp.first THEN 1 ELSE 0
          /\ viewOp.obj = firstObj[viewOp.flag]
          /\ viewOp.flag \in DOMAIN _cache
          /\ _cache[viewOp.flag] = viewOp.obj

\* C1 witness: both flags have been read, the last read was answered from the
\* cache, and the process holds something else by now.
C1_Witness ==
    /\ viewOp.op = "read" /\ viewOp.outcome = "ok"
    /\ ~viewOp.first /\ viewOp.ncalls = 0
    /\ served = Flags /\ Len(callLog) = 2
    /\ rawOutput # viewOp.obj.content

\* C2: a read after a scope exit never returns an object obtained before that
\* exit, and the first read of a flag after the exit calls the process, whether
\* or not the flag was cached when the exit ran.
C2_NoEntrySurvivesExit ==
    ViewServed =>
        /\ viewOp.obj.id > exitMark
        /\ viewOp.first => viewOp.ncalls = 1

\* C2 witness: the flag was cached, the scope was left and entered again, and the
\* read of that flag called the process anew.
C2_Witness ==
    /\ scope = "open" /\ exitMark > 0
    /\ viewOp.op = "read" /\ viewOp.outcome = "ok"
    /\ viewOp.flag \in exitCached
    /\ viewOp.first /\ viewOp.ncalls = 1

\* C3: a failure of get_raw_output reaches the caller as raised, after a single
\* call, leaves the cache as it was (nothing under the requested flag, the other
\* flag's entry untouched), and the next read with that flag calls the process.
C3_FailureNotCached ==
    /\ (viewOp.op \in {"read", "is_empty"}
          /\ viewOp.outcome \in ProcessFailures) =>
          /\ viewOp.ncalls = 1
          /\ Len(callLog) > 0
          /\ callLog[Len(callLog)].raised = viewOp.outcome
          /\ callLog[Len(callLog)].flag = viewOp.flag
          /\ _cache = viewOp.cacheBefore
          /\ viewOp.flag \notin DOMAIN _cache
    /\ (viewOp.op \in {"read", "is_empty"} /\ viewOp.retry
          /\ viewOp.outcome # "NotImplementedError") => viewOp.ncalls = 1

\* C3 witness: a read failed while the other flag was cached, and the same read
\* tried again called the process and succeeded.
C3_Witness ==
    /\ viewOp.op = "read" /\ viewOp.retry /\ viewOp.outcome = "ok"
    /\ viewOp.ncalls = 1
    /\ (~viewOp.flag) \in DOMAIN viewOp.cacheBefore
    /\ viewOp.cacheBefore[~viewOp.flag] = _cache[~viewOp.flag]

IsWrite == writerOp.op = "write"

NonEmptyList(data) == data.kind = "list" /\ Len(data.items) > 0

CallTiles(calls) == [i \in 1..Len(calls) |-> calls[i].tile]

CallPaths(calls) == {calls[i].out_path : i \in 1..Len(calls)}

\* the positions of an event in the event log
Positions(ev) == {i \in 1..Len(writerOp.events) : writerOp.events[i] = ev}

\* C4: a write of a non-empty list that returns has called the codec once per
\* intersecting tile, in order, and for no other tile; each call came after that
\* tile's prepare_path and carried the whole batch in order, the declared schema,
\* the tile buffered by the configured pixelbuffer and the tile's path; and each
\* intersecting tile's path holds what this call encoded. A write that fails has
\* called the codec for a prefix of the intersecting tiles only.
C4_OneCodecCallPerIntersectingTile ==
    (IsWrite /\ NonEmptyList(writerOp.data)) =>
        LET tiles == intersecting(writerOp.process_tile)
            calls == writerOp.codecCalls
        IN /\ Len(calls) <= Len(tiles)
           /\ CallTiles(calls) = SubSeq(tiles, 1, Len(calls))
           /\ \A i \in 1..Len(calls) :
                 /\ calls[i].in_data = writerOp.data.items
                 /\ calls[i].out_schema = SchemaOf(writer)
                 /\ calls[i].out_tile = [tile |-> calls[i].tile,
                                         pixelbuffer |-> writer.output_params.pixelbuffer]
                 /\ calls[i].out_path = get_path(writer, calls[i].tile)
                 /\ Cardinality(Positions(<<"write_vector_window", calls[i].tile>>)) = 1
                 /\ \E p \in Positions(<<"prepare_path", calls[i].tile>>) :
                       \A q \in Positions(<<"write_vector_window", calls[i].tile>>) : p < q
                 /\ dirname(calls[i].out_path) \in dirs
           /\ writerOp.outcome = "ok" =>
                 /\ Len(calls) = Len(tiles)
                 /\ \A i \in 1..Len(calls) :
                       /\ calls[i].out_path \in DOMAIN files
                       /\ files[calls[i].out_path] =
                             Encode(writerOp.data.items, SchemaOf(writer),
                                    calls[i].out_tile)

\* C4 witness: a two-record list was written to a process tile with two
\* intersecting output tiles, and a third path holds nothing.
C4_Witness ==
    /\ IsWrite /\ writerOp.outcome = "ok"
    /\ writerOp.data.kind = "list" /\ Len(writerOp.data.items) = 2
    /\ Len(writerOp.codecCalls) = 2
    /\ Cardinality(DOMAIN files) = 2

\* C5: write(process_tile, None) and write(process_tile, []) return without
\* consulting the pyramid, preparing a directory or calling the codec, and leave
\* the stored files and directories as they were.
C5_EmptyWriteIsNoOp ==
    (IsWrite /\ (writerOp.data.kind = "None" \/ writerOp.data = [kind |-> "list", items |-> <<>>])) =>
        /\ writerOp.outcome = "ok"
        /\ writerOp.events = <<>>
        /\ writerOp.codecCalls = <<>>
        /\ writerOp.files_same
        /\ writerOp.dirs_same

\* C5 witness: None was written while files were stored.
C5_Witness ==
    /\ IsWrite /\ writerOp.data.kind = "None" /\ writerOp.outcome = "ok"
    /\ DOMAIN files # {}

\* C6: a generator is accepted by write: it is consumed once, write does not fail
\* on it, and when it yields nothing no directory is prepared and no codec call
\* is made.
C6_GeneratorAccepted ==
    (IsWrite /\ writerOp.data.kind = "generator") =>
        /\ writerOp.outcome # "TypeError"
        /\ writerOp.consumed = 1
        /\ \A i \in 1..Len(writerOp.codecCalls) :
              writerOp.codecCalls[i].in_data = writerOp.data.items
        /\ writerOp.data.items = <<>> =>
              /\ writerOp.outcome = "ok"
              /\ writerOp.events = <<>>
              /\ writerOp.codecCalls = <<>>

\* the configurations the Schema Validator accepts
ValidConfig(c) ==
    /\ c.schema = "dict" /\ c.path = "str"
    /\ c.properties = "dict" /\ c.geometry = "str"
    /\ c.geometry_value \in {"Geometry", "Point", "MultiPoint", "Line", "MultiLine",
                             "Polygon", "MultiPolygon"}

UnsupportedShape(data) ==
    /\ data.kind \notin {"None", "list", "generator"}
    /\ ~(HasLen(data) /\ Len(data.items) = 0)

\* C8: write of data that is present but neither a list nor a generator fails
\* with the type error before the pyramid is consulted, a directory prepared or
\* the codec called: files and directories are as before.
C8_UnsupportedShapeRejected ==
    (IsWrite /\ UnsupportedShape(writerOp.data)) =>
        /\ writerOp.outcome = "TypeError"
        /\ writerOp.events = <<>>
        /\ writerOp.codecCalls = <<>>
        /\ writerOp.files_same
        /\ writerOp.dirs_same

\* C8 witness: a non-empty tuple was refused while files were stored.
C8_Witness ==
    /\ IsWrite /\ writerOp.data.kind = "tuple" /\ Len(writerOp.data.items) > 0
    /\ writerOp.outcome = "TypeError"
    /\ DOMAIN files # {}

\* C9: a write that repeats the previous write (same process tile, equal data)
\* targets the same paths as the first, encodes every one of them again, and
\* leaves the stored files exactly as the first call left them.
C9_RepeatedWriteSameArtifacts ==
    (IsWrite /\ writerOp.repeat /\ writerOp.outcome = "ok") =>
        /\ CallPaths(writerOp.codecCalls) = CallPaths(writerOp.prevCalls)
        /\ Len(writerOp.codecCalls) = Len(writerOp.prevCalls)
        /\ writerOp.files_same
        /\ \A i \in 1..Len(writerOp.codecCalls) :
              files[writerOp.codecCalls[i].out_path] =
                  Encode(writerOp.data.items, SchemaOf(writer),
                         writerOp.codecCalls[i].out_tile)

\* C9 witness: the same two-tile write was made twice in a row.
C9_Witness ==
    /\ IsWrite /\ writerOp.repeat /\ writerOp.outcome = "ok"
    /\ Len(writerOp.codecCalls) = 2 /\ Len(writerOp.prevCalls) = 2
    /\ writerOp.files_same

\* C10: when a codec call of the fan-out fails, write fails with that error: a
\* write that returned made no failing codec call.
C10_CodecFailurePropagates ==
    IsWrite =>
        \A i \in 1..Len(writerOp.codecCalls) :
            writerOp.codecCalls[i].raised # "none" =>
                writerOp.outcome = writerOp.codecCalls[i].raised

\* C10 witness: the codec failed on the second tile of the fan-out and write
\* failed with its error.
C10_Witness ==
    /\ IsWrite /\ Len(writerOp.codecCalls) = 2
    /\ writerOp.codecCalls[1].raised = "none"
    /\ writerOp.codecCalls[2].raised = "OSError"
    /\ writerOp.outcome = "OSError"

\* C11: is_empty(f) answers true exactly when the object a read(f) returns holds
\* no records, and both go through the one cache entry of f: whichever of the
\* two asks for f second in a scope calls the process no more and is answered
\* from the object the first one stored, so that the pair makes one call.
C11_IsEmptySharesCacheEntry ==
    /\ (viewOp.op = "is_empty" /\ viewOp.outcome = "ok") =>
          /\ viewOp.flag \in DOMAIN _cache
          /\ viewOp.empty = (Len(_cache[viewOp.flag].content) = 0)
          /\ viewOp.empty = (Len(firstObj[viewOp.flag].content) = 0)
    /\ (ViewServed /\ servedBy[viewOp.flag] # viewOp.op) =>
          /\ viewOp.ncalls = 0
          /\ viewOp.obj = firstObj[viewOp.flag]
          /\ OkCalls(viewOp.flag) = 1
    /\ viewOp.op = "read" => ~viewOp.empty

\* C11 witness: a read stored an object without records, the process produced
\* records afterwards, and is_empty with the same flag answered true from the
\* stored object without a call.
C11_Witness ==
    /\ viewOp.op = "is_empty" /\ viewOp.outcome = "ok"
    /\ servedBy[viewOp.flag] = "read"
    /\ viewOp.empty /\ viewOp.ncalls = 0
    /\ rawOutput # <<>>
    /\ OkCalls(viewOp.flag) = 1

\* C12 as stated: whenever the view is closed its cache is empty, and the scope
\* is entered again with an empty cache, reads made while closed included.
C12_ClosedCacheEmpty ==
    /\ scope = "closed" => _cache = EmptyCache
    /\ (viewOp.op = "enter" /\ exitMark > 0) => _cache = EmptyCache

\* C12 amended: every scope exit leaves the view closed with an empty cache, and
\* an entry held at any later time, while closed or after the scope is entered
\* again, was obtained by a read made after the last exit; as long as nothing
\* is read after the exit the cache stays empty, across __enter__ as well.
C12_CacheEmptyAfterExit ==
    /\ viewOp.op = "exit" => (_cache = EmptyCache /\ scope = "closed")
    /\ \A f \in DOMAIN _cache : _cache[f].id > exitMark
    /\ DOMAIN _cache = served
    /\ viewOp.op = "enter" => (scope = "open" /\ _cache = viewOp.cacheBefore)

\* C12 witness: an entry was cached when the scope was left, a read made on the
\* closed view stored an object, and the scope was entered again with it.
C12_Witness ==
    /\ viewOp.op = "enter" /\ scope = "open"
    /\ exitCached # {} /\ exitMark > 0
    /\ _cache # EmptyCache
    /\ \A f \in DOMAIN _cache : _cache[f].id > exitMark

\* the calls of get_raw_output made for flag f, failed ones included
CallsFor(f) == {i \in 1..Len(callLog) : callLog[i].flag = f}

\* C13: a view shared by two callers takes no lock: every lookup that finds its
\* flag absent goes on to call the process, whatever the other caller is doing,
\* and each caller is answered with an object obtained for its own flag; the
\* process is called twice for one flag in one scope only when a lookup found
\* the flag absent while the other caller's lookup of it had not stored yet.
C13_UnlockedLookups ==
    /\ \A f \in Flags :
          /\ Cardinality(CallsFor(f)) =
                misses[f] - Cardinality({t \in Callers :
                                            pc[t] = "call" /\ tflag[t] = f})
          /\ OkCalls(f) > 1 => f \in overlapped
    /\ \A t \in Callers :
          pc[t] = "done" =>
              \E i \in CallsFor(tflag[t]) :
                  callLog[i].raised = "none" /\ callLog[i].id = tret[t].id

\* C13 witness: both callers read with the same flag, the process was called
\* twice for it and both calls returned, and the callers hold different values.
C13_Witness ==
    /\ pc[1] = "done" /\ pc[2] = "done"
    /\ tflag[1] = tflag[2]
    /\ OkCalls(tflag[1]) = 2
    /\ tret[1].id # tret[2].id
    /\ tret[1].content # tret[2].content

KeysWellTyped(c) ==
    /\ c.schema = "dict" /\ c.path = "str"
    /\ c.properties = "dict" /\ c.geometry = "str"

\* C15: is_valid_with_config returns true exactly on a configuration with a
\* mapping schema, a string path, mapping properties and a string geometry of
\* the enumeration, and otherwise raises, never returning false: the validation
\* error whenever a key is missing or mistyped, whatever the geometry, and the
\* type error exactly when all keys are well typed and the geometry is outside
\* the enumeration; storage and the writer are as before.
C15_ValidationOutcome ==
    writerOp.op = "is_valid_with_config" =>
        LET c == writerOp.config
        IN /\ writerOp.outcome \in {"True", "ValidationError", "TypeError"}
           /\ (writerOp.outcome = "True") = ValidConfig(c)
           /\ (writerOp.outcome = "ValidationError") = ~KeysWellTyped(c)
           /\ (writerOp.outcome = "TypeError") =
                 (KeysWellTyped(c) /\ c.geometry_value \notin GeometryTypes)
           /\ writerOp.files_same /\ writerOp.dirs_same
           /\ writer.constructed /\ ValidConfig(writer.output_params)

\* C15 witness: a writer that has written files validated a configuration whose
\* keys are well typed and whose geometry is "Circle", and got the type error.
C15_Witness ==
    /\ writerOp.op = "is_valid_with_config"
    /\ writerOp.outcome = "TypeError"
    /\ KeysWellTyped(writerOp.config)
    /\ writerOp.config.geometry_value = "Circle"
    /\ files # <<>>

\* C16: the writer's read fails with NotImplementedError for every output tile
\* and leaves storage as it was; the view's read with no_neighbors set fails
\* with NotImplementedError for either flag, calls the process not at all and
\* leaves the cache as it was.
C16_UnsupportedReadsFail ==
    /\ writerOp.op = "read" =>
          /\ writerOp.outcome = "NotImplementedError"
          /\ writerOp.files_same /\ writerOp.dirs_same
    /\ (viewOp.op = "read" /\ viewOp.no_neighbors) =>
          /\ viewOp.outcome = "NotImplementedError"
          /\ viewOp.ncalls = 0
          /\ viewOp.obj = NoObj
          /\ _cache = viewOp.cacheBefore
    /\ rawCalls = Len(callLog)
    /\ (viewOp.op = "read" /\ ~viewOp.no_neighbors) =>
          viewOp.outcome # "NotImplementedError"

\* C16 witness: a writer with files in storage was read, and the view, holding
\* an entry for one flag, was read with no_neighbors set and the other flag.
C16_Witness ==
    /\ writerOp.op = "read" /\ files # <<>>
    /\ viewOp.op = "read" /\ viewOp.no_neighbors
    /\ DOMAIN _cache = {TRUE} /\ viewOp.flag = FALSE
    /\ rawCalls = 1

\* C17: __exit__ empties the cache whatever ended the block, an error raised by
\* read, is_empty or get_raw_output included, and the error that ended the
\* block still reaches the caller: __exit__ does not suppress it.
C17_ExitClearsOnEveryPath ==
    viewOp.op = "exit" =>
        /\ _cache = EmptyCache
        /\ served = {} /\ callLog = <<>>
        /\ viewOp.outcome = IF viewOp.exc = "none" THEN "ok" ELSE viewOp.exc

\* C17 witness: with an entry cached, a call on the view failed with an error of
\* the process, the block ended with that error, and the scope exit emptied the
\* cache and let the error through.
C17_Witness ==
    /\ viewOp.op = "exit"
    /\ viewOp.exc \in ProcessFailures
    /\ viewOp.outcome = viewOp.exc
    /\ viewOp.cacheBefore # EmptyCache
    /\ _cache = EmptyCache

\* C18: every open returns one more view, bound to the tile and the process it
\* was called with and with an empty cache, whatever the views returned before
\* hold; a read or a scope exit on one view leaves every other view as it was,
\* also a view bound to the same tile and process, and a read that calls the
\* process calls the view's own process with the view's own tile.
C18_OpenReturnsFreshView ==
    /\ viewsOp.op = "open" =>
          /\ Len(views) = Len(viewsOp.before) + 1
          /\ viewsOp.view = Len(views)
          /\ views[Len(views)].tile = viewsOp.tile
          /\ views[Len(views)].process = viewsOp.process
          /\ views[Len(views)]._cache = EmptyCache
    /\ viewsOp.op \in {"read", "exit"} =>
          /\ Len(views) = Len(viewsOp.before)
          /\ views[viewsOp.view].tile = viewsOp.before[viewsOp.view].tile
          /\ views[viewsOp.view].process = viewsOp.before[viewsOp.view].process
          /\ viewsOp.call # <<>> =>
                viewsOp.call = <<views[viewsOp.view].process,
                                 views[viewsOp.view].tile>>
    /\ viewsOp.op # "none" =>
          \A i \in 1..Len(viewsOp.before) :
              i # viewsOp.view => views[i] = viewsOp.before[i]

\* C18 witness: two views are bound to the same tile and process, both were
\* read with the same flag and hold different objects, and the scope exit of
\* the first left the second's entry in place.
C18_Witness ==
    /\ Len(views) = 2
    /\ views[1].tile = views[2].tile /\ views[1].process = views[2].process
    /\ viewsOp.op = "exit" /\ viewsOp.view = 1
    /\ viewsOp.before[1]._cache # EmptyCache
    /\ TRUE \in DOMAIN viewsOp.before[1]._cache
    /\ TRUE \in DOMAIN views[2]._cache
    /\ viewsOp.before[1]._cache[TRUE] # views[2]._cache[TRUE]
    /\ views[1]._cache = EmptyCache

\* C19: when the codec fails on a tile of the fan-out, that call is the last
\* step of the write: every tile before it has been written and its file is
\* what this write encoded, and for no tile after it was a path taken, a
\* directory prepared or the codec called; the write fails with that error.
C19_FanOutStopsAtFailure ==
    (IsWrite /\ \E i \in 1..Len(writerOp.codecCalls) :
                    writerOp.codecCalls[i].raised # "none") =>
        LET calls == writerOp.codecCalls
            k == Len(calls)
            tiles == intersecting(writerOp.process_tile)
        IN /\ calls[k].raised # "none"
           /\ writerOp.outcome = calls[k].raised
           /\ k <= Len(tiles)
           /\ \A i \in 1..(k - 1) :
                 /\ calls[i].raised = "none"
                 /\ calls[i].tile = tiles[i]
                 /\ calls[i].out_path \in DOMAIN files
                 /\ files[calls[i].out_path] =
                       Encode(writerOp.data.items, SchemaOf(writer), calls[i].out_tile)
           /\ \A j \in (k + 1)..Len(tiles) :
                 /\ Positions(<<"get_path", tiles[j]>>) = {}
                 /\ Positions(<<"prepare_path", tiles[j]>>) = {}
                 /\ Positions(<<"BufferedTile", tiles[j]>>) = {}
                 /\ Positions(<<"write_vector_window", tiles[j]>>) = {}
           /\ Len(writerOp.events) = 1 + 4 * k

\* C19 witness: of three intersecting tiles the codec failed on the second: the
\* first tile's file is in storage, the third tile has no file and no directory.
C19_Witness ==
    /\ IsWrite /\ Len(intersecting(writerOp.process_tile)) = 3
    /\ Len(writerOp.codecCalls) = 2
    /\ writerOp.codecCalls[2].raised = "DriverError"
    /\ writerOp.outcome = "DriverError"
    /\ DOMAIN files = {writerOp.codecCalls[1].out_path}
    /\ dirname(get_path(writer, 3)) \notin dirs

\* the call that obtained the object cached under flag f
CallOf(f) == CHOOSE i \in 1..Len(callLog) : callLog[i].id = _cache[f].id

====
